---- MODULE Spec2Model ----
(***************************************************************************)
(* Model of video-split-scenes.py: the scene-boundary decision engine.     *)
(*                                                                         *)
(* Time is counted in ticks of half a second, so the script's 0.5 s        *)
(* constants are one tick (HalfSecond) and the whole-second arguments      *)
(* (--scene_limit, --intro_limit, --defer_limit) are multiples of Second.  *)
(* A midpoint (start + end) / 2 may fall between two ticks; every          *)
(* comparison with a midpoint is therefore made on doubled values.         *)
(***************************************************************************)
EXTENDS Integers, Sequences, FiniteSets

\* ------------------------------------------------------------- bounds
\* Spec: the keyframes and transitions lie in 0 .. MaxTime.
MaxTime == 5
\* Spec: at most this many transition intervals in black_frames.
MaxTransitions == 2
\* SpecSparse: the keyframes and transitions lie in 0 .. MaxSparseTime.
MaxSparseTime == 4
\* SpecSparse: at most this many transition intervals in black_frames.
MaxSparseTransitions == 2
\* Largest --scene_limit and --intro_limit, in seconds.
MaxSceneLimit == 1
\* Largest --defer_limit given with --defer, in seconds.
MaxDeferLimit == 1
\* Merge ranges a-b are drawn with 0 <= a < b <= MaxMergeIndex.
MaxMergeIndex == 2
\* SpecSnap: keyframes and the transition lie in 0 .. MaxSnapTime.
MaxSnapTime == 6
\* SpecLong: unit transitions start in 0 .. MaxLongTime.
MaxLongTime == 5
\* SpecRefine: the long segment lies in 0 .. MaxRefineTime.
MaxRefineTime == 5
\* SpecRefine: a collaborator report holds at most this many intervals.
MaxReport == 2

\* ---------------------------------------------------- program constants
\* 0.5 seconds, the near-tie threshold of find_nearest_keyframe and the
\* padding of refine_long_segment: one tick.
HalfSecond == 1
Second == HalfSecond + HalfSecond
\* range(2): the attempt budget of refine_long_segment.
MaxAttempts == 2
\* The default of --defer_limit, in seconds.
DefaultDeferLimit == 30
\* Python's None (timestamps are never negative).
None == -1

\* ------------------------------------------------------------- helpers
Abs(x) == IF x < 0 THEN -x ELSE x
Max(a, b) == IF a >= b THEN a ELSE b
Min(a, b) == IF a <= b THEN a ELSE b

\* Python truthiness of a float-or-None: None and 0.0 are both falsy.
Truthy(x) == x # None /\ x # 0

\* The increasing sequence of the elements of a set of numbers
\* (sorted(set(...)) of the keyframe timestamps).
RECURSIVE SortedSeq(_)
SortedSeq(S) ==
    IF S = {} THEN <<>>
    ELSE LET m == CHOOSE x \in S : \A y \in S : x <= y
         IN  <<m>> \o SortedSeq(S \ {m})

\* Stable insertion of an interval into a list sorted by start.
RECURSIVE InsertByStart(_, _)
InsertByStart(sorted, x) ==
    IF sorted = <<>> THEN <<x>>
    ELSE IF x[1] < sorted[1][1] THEN <<x>> \o sorted
    ELSE <<sorted[1]>> \o InsertByStart(Tail(sorted), x)

\* sorted(frames, key=lambda x: x[0]): a stable sort by start.
RECURSIVE SortByStart(_)
SortByStart(frames) ==
    IF frames = <<>> THEN <<>>
    ELSE InsertByStart(SortByStart(SubSeq(frames, 1, Len(frames) - 1)),
                       frames[Len(frames)])

\* ------------------------------------------------- find_nearest_keyframe
\* The keyframe chosen when both neighbours of the midpoint exist.
\* mid2 is twice the midpoint.
ChooseKeyframeStrictTie(nearest_before, nearest_after, ts, te, mid2) ==
    IF nearest_before >= ts /\ nearest_after <= te
    THEN IF mid2 - 2 * nearest_before < 2 * nearest_after - mid2
         THEN nearest_before ELSE nearest_after
    ELSE IF nearest_before >= ts THEN nearest_before
    ELSE IF nearest_after <= te THEN nearest_after
    ELSE IF Abs((mid2 - 2 * nearest_before) - (2 * nearest_after - mid2))
              < 2 * HalfSecond
    THEN nearest_before
    ELSE IF mid2 - 2 * nearest_before <= 2 * nearest_after - mid2
         THEN nearest_before ELSE nearest_after

ChooseKeyframe(nearest_before, nearest_after, ts, te, mid2) ==
    IF nearest_before >= ts /\ nearest_after <= te
    THEN IF mid2 - 2 * nearest_before <= 2 * nearest_after - mid2
         THEN nearest_before ELSE nearest_after
    ELSE IF nearest_before >= ts THEN nearest_before
    ELSE IF nearest_after <= te THEN nearest_after
    ELSE IF Abs((mid2 - 2 * nearest_before) - (2 * nearest_after - mid2))
              <= 2 * HalfSecond
    THEN nearest_before
    ELSE IF mid2 - 2 * nearest_before <= 2 * nearest_after - mid2
         THEN nearest_before ELSE nearest_after

find_nearest_keyframe(kfs, ts, te) ==
    LET mid2 == ts + te
        before_midpoint == SelectSeq(kfs, LAMBDA k : 2 * k <= mid2)
        after_midpoint == SelectSeq(kfs, LAMBDA k : 2 * k >= mid2)
    IN  IF before_midpoint = <<>> /\ after_midpoint = <<>> THEN None
        ELSE IF before_midpoint = <<>> THEN after_midpoint[1]
        ELSE IF after_midpoint = <<>>
             THEN before_midpoint[Len(before_midpoint)]
        ELSE ChooseKeyframe(before_midpoint[Len(before_midpoint)],
                            after_midpoint[1], ts, te, mid2)

\* ------------------------------------------------------- should_merge
RECURSIVE should_merge_inclusive(_, _)
should_merge_inclusive(scene_number_, ranges) ==
    IF ranges = <<>> THEN FALSE
    ELSE IF ranges[1][1] <= scene_number_ /\ scene_number_ <= ranges[1][2]
    THEN TRUE
    ELSE should_merge_inclusive(scene_number_, Tail(ranges))

\* ranges is merge_scenes, a global of the script.
RECURSIVE should_merge(_, _)
should_merge(scene_number_, ranges) ==
    IF ranges = <<>> THEN FALSE
    ELSE IF ranges[1][1] <= scene_number_ /\ scene_number_ < ranges[1][2]
    THEN TRUE
    ELSE should_merge(scene_number_, Tail(ranges))

\* --------------------------------------------------------------- state
VARIABLES
    keyframes,              \* sorted, duplicate-free keyframe timestamps
    black_frames,           \* transition intervals <<start, end>>, by start
    merge_scenes,           \* parse_merge_scenes(args.merge)
    min_scene_duration,     \* args.scene_limit, in ticks
    intro_time_limit,       \* args.intro_limit, in ticks
    defer_mode,             \* args.defer
    defer_limit,            \* args.defer_limit, in ticks
    max_duration,           \* args.max_duration, in ticks
    kf,                     \* the keyframe shown by the debug listing
    idx,                    \* position of a loop over black_frames
    adjusted_black_frames,
    segment,                \* <<start_time, end_time>> of the last refine call
    refined_frames,         \* the report refine_long_segment returned on
    adjusted,               \* what refine_long_segment returned last
    attempt,                \* collaborator invocations of the last refine call
    intro_end,
    all_transitions,
    split_points,
    current_start,
    premerge_scene_number,
    first_valid_split,
    i,
    scene_start,
    scene_number,
    cuts,                   \* the cut commands run, as [file, from, to]
    end_time,
    pc

args == <<merge_scenes, min_scene_duration, intro_time_limit, defer_mode,
          defer_limit, max_duration>>
inputs == <<keyframes, black_frames>>
adjustVars == <<idx, adjusted_black_frames, segment, refined_frames,
                adjusted, attempt>>
reduceVars == <<split_points, current_start, premerge_scene_number,
                first_valid_split, i>>
outputVars == <<scene_start, scene_number, cuts, end_time>>
vars == <<keyframes, black_frames, merge_scenes, min_scene_duration,
          intro_time_limit, defer_mode, defer_limit, max_duration, kf, idx,
          adjusted_black_frames, segment, refined_frames, adjusted, attempt,
          intro_end,
          all_transitions, split_points, current_start,
          premerge_scene_number, first_valid_split, i, scene_start,
          scene_number, cuts, end_time, pc>>

\* ---------------------------------------------------------- input sets
Intervals(T) == {iv \in (0 .. T) \X (0 .. T) : iv[1] < iv[2]}

SortedByStart(frames) ==
    \A k \in 1 .. Len(frames) - 1 : frames[k][1] <= frames[k + 1][1]

\* The lists of at most n intervals of 0 .. T in the order sorted() leaves.
TransitionLists(T, n) ==
    UNION {{frames \in [1 .. k -> Intervals(T)] : SortedByStart(frames)} :
           k \in 0 .. n}

KeyframeLists(T) == {SortedSeq(S) : S \in SUBSET (0 .. T)}

MergeRanges(lo, hi) == {r \in (lo .. hi) \X (lo .. hi) : r[1] < r[2]}

MergeLists(lo, hi, n) == UNION {[1 .. k -> MergeRanges(lo, hi)] : k \in 0 .. n}

\* The values an int argument given in seconds takes, in ticks.
Seconds(n) == {Second * s : s \in 0 .. n}

\* --defer_limit other than the default is rejected without --defer.
DeferChoices(n) ==
    {<<FALSE, Second * DefaultDeferLimit>>} \cup
    {<<TRUE, l>> : l \in Seconds(n)}

\* The state on reaching "Determine the end of the intro" of a run in
\* which no segment was adjusted.
StartOfCore ==
    /\ kf = None
    /\ idx = 0
    /\ adjusted_black_frames = <<>>
    /\ segment = <<>>
    /\ refined_frames = <<>>
    /\ adjusted = <<>>
    /\ attempt = 0
    /\ intro_end = 0
    /\ all_transitions = <<>>
    /\ split_points = <<>>
    /\ current_start = 0
    /\ premerge_scene_number = 1
    /\ first_valid_split = None
    /\ i = 0
    /\ scene_start = 0
    /\ scene_number = 1
    /\ cuts = <<>>
    /\ end_time = None

\* Runs with --disable_auto_adjust on an intra-coded stream (every tick a
\* keyframe) over arbitrary transitions and arguments.
Init ==
    /\ keyframes = SortedSeq(0 .. MaxTime)
    /\ black_frames \in TransitionLists(MaxTime, MaxTransitions)
    /\ merge_scenes \in MergeLists(0, MaxMergeIndex, 1)
    /\ min_scene_duration \in Seconds(MaxSceneLimit)
    /\ intro_time_limit \in Seconds(MaxSceneLimit)
    /\ \E d \in DeferChoices(MaxDeferLimit) :
          defer_mode = d[1] /\ defer_limit = d[2]
    /\ max_duration = 0
    /\ StartOfCore
    /\ pc = "intro"

\* Runs with --disable_auto_adjust --scene_limit 0 over arbitrary keyframes
\* and transitions.
InitSparse ==
    /\ keyframes \in KeyframeLists(MaxSparseTime)
    /\ black_frames \in TransitionLists(MaxSparseTime, MaxSparseTransitions)
    /\ merge_scenes \in MergeLists(0, 1, 1)
    /\ min_scene_duration = 0
    /\ intro_time_limit \in Seconds(MaxSceneLimit)
    /\ \E d \in DeferChoices(0) : defer_mode = d[1] /\ defer_limit = d[2]
    /\ max_duration = 0
    /\ StartOfCore
    /\ pc = "intro"

\* ------------------------------------------------- intro end detection
\* The loop of lines 296-301, from the running maximum acc.
RECURSIVE IntroScan(_, _, _, _)
IntroScan(frames, kfs, limit, acc) ==
    IF frames = <<>> THEN acc
    ELSE IF frames[1][1] < limit
    THEN LET scene_end == find_nearest_keyframe(kfs, frames[1][1], frames[1][2])
         IN  IntroScan(Tail(frames), kfs, limit,
                 Max(acc, IF Truthy(scene_end) THEN scene_end ELSE frames[1][2]))
    ELSE acc

DetectIntro ==
    /\ pc = "intro"
    /\ intro_end' = IntroScan(black_frames, keyframes, intro_time_limit, 0)
    /\ pc' = "collect"
    /\ UNCHANGED <<args, inputs, kf, adjustVars, all_transitions, reduceVars,
                   outputVars>>

\* ------------------------------------------------ candidate extraction
RECURSIVE CollectPrepend(_, _, _)
CollectPrepend(frames, kfs, after) ==
    IF frames = <<>> THEN <<>>
    ELSE LET scene_end == find_nearest_keyframe(kfs, frames[1][1], frames[1][2])
             rest == CollectPrepend(Tail(frames), kfs, after)
         IN  IF Truthy(scene_end) /\ scene_end > after
             THEN rest \o <<scene_end>> ELSE rest

\* The loop of lines 305-309.
RECURSIVE Collect(_, _, _)
Collect(frames, kfs, after) ==
    IF frames = <<>> THEN <<>>
    ELSE LET scene_end == find_nearest_keyframe(kfs, frames[1][1], frames[1][2])
             rest == Collect(Tail(frames), kfs, after)
         IN  IF Truthy(scene_end) /\ scene_end > after
             THEN <<scene_end>> \o rest ELSE rest

CollectTransitions ==
    /\ pc = "collect"
    /\ all_transitions' = Collect(black_frames, keyframes, intro_end)
    /\ current_start' = intro_end
    /\ pc' = "reduce"
    /\ UNCHANGED <<args, inputs, kf, adjustVars, intro_end, split_points,
                   premerge_scene_number, first_valid_split, i, outputVars>>

\* ------------------------------------------------ split-point reduction
\* all_transitions[k] with Python's 0-based index.
At(seq, k) == seq[k + 1]

ClusterEndToLast(cands, j, first, limit) == Len(cands) - 1

\* The inner loop of lines 328-333: the last index from j on whose
\* successors all lie within limit of first.
RECURSIVE ClusterEnd(_, _, _, _)
ClusterEnd(cands, j, first, limit) ==
    IF j < Len(cands) - 1 /\ At(cands, j + 1) - first <= limit
    THEN ClusterEnd(cands, j + 1, first, limit)
    ELSE j

DecideCursorKept(t) ==
    /\ split_points' = IF should_merge(premerge_scene_number, merge_scenes)
                       THEN split_points
                       ELSE Append(split_points, t)
    /\ current_start' = IF should_merge(premerge_scene_number, merge_scenes)
                        THEN t
                        ELSE current_start
    /\ premerge_scene_number' = premerge_scene_number + 1

\* Lines 336-342 and 350-356: the decision point t either starts a merged
\* scene or is emitted; the cursor and the counter advance either way.
Decide(t) ==
    /\ split_points' = IF should_merge(premerge_scene_number, merge_scenes)
                       THEN split_points
                       ELSE Append(split_points, t)
    /\ current_start' = t
    /\ premerge_scene_number' = premerge_scene_number + 1

\* One iteration of the while loop of lines 323-345.
DeferStep ==
    /\ pc = "reduce"
    /\ defer_mode
    /\ i < Len(all_transitions)
    /\ IF At(all_transitions, i) - current_start >= min_scene_duration
       THEN LET first == At(all_transitions, i)
                j == ClusterEnd(all_transitions, i, first, defer_limit)
            IN  /\ first_valid_split' = first
                /\ Decide(At(all_transitions, j))
                /\ i' = j + 1
       ELSE /\ i' = i + 1
            /\ UNCHANGED <<split_points, current_start,
                           premerge_scene_number, first_valid_split>>
    /\ UNCHANGED <<args, inputs, kf, adjustVars, intro_end, all_transitions,
                   outputVars, pc>>

\* One iteration of the for loop of lines 348-356.
EarliestStep ==
    /\ pc = "reduce"
    /\ ~defer_mode
    /\ i < Len(all_transitions)
    /\ IF At(all_transitions, i) - current_start >= min_scene_duration
       THEN Decide(At(all_transitions, i))
       ELSE UNCHANGED <<split_points, current_start, premerge_scene_number>>
    /\ i' = i + 1
    /\ UNCHANGED <<args, inputs, kf, adjustVars, intro_end, all_transitions,
                   first_valid_split, outputVars, pc>>

\* -------------------------------------------------------- output stage
Cut(file, from, to) == [file |-> file, from |-> from, to |-> to]

\* Lines 363-375: the intro file, and where the first scene starts.
OutputIntro ==
    /\ pc = "reduce"
    /\ i >= Len(all_transitions)
    /\ LET merge_intro == should_merge(0, merge_scenes)
       IN  /\ cuts' = IF intro_end > 0 /\ ~merge_intro
                      THEN Append(cuts, Cut("Intro", 0, intro_end))
                      ELSE cuts
           /\ scene_start' = IF merge_intro THEN 0 ELSE intro_end
    /\ scene_number' = 1
    /\ pc' = "scenes"
    /\ UNCHANGED <<args, inputs, kf, adjustVars, intro_end, all_transitions,
                   reduceVars, end_time>>

\* One iteration of the loop of lines 377-384: ffmpeg -ss scene_start
\* -t (scene_end - scene_start).
OutputScene ==
    /\ pc = "scenes"
    /\ scene_number <= Len(split_points)
    /\ LET scene_end == split_points[scene_number]
       IN  /\ cuts' = Append(cuts, Cut("Scene", scene_start,
                                       scene_start + (scene_end - scene_start)))
           /\ scene_start' = scene_end
    /\ scene_number' = scene_number + 1
    /\ UNCHANGED <<args, inputs, kf, adjustVars, intro_end, all_transitions,
                   reduceVars, end_time, pc>>

\* The largest timestamp of the run's keyframes and transitions.
LastStamp ==
    LET stamps == {keyframes[k] : k \in 1 .. Len(keyframes)} \cup
                  {black_frames[k][2] : k \in 1 .. Len(black_frames)} \cup {0}
    IN  CHOOSE m \in stamps : \A x \in stamps : x <= m

\* Lines 386-395: the stream's duration is read, and what is left after the
\* last split point is cut to the end of the stream.
OutputEnding ==
    /\ pc = "scenes"
    /\ scene_number > Len(split_points)
    /\ \E total \in {LastStamp, LastStamp + HalfSecond} :
          /\ end_time' = total
          /\ cuts' = IF total - scene_start > 0
                     THEN Append(cuts,
                              Cut(IF total - scene_start < min_scene_duration
                                  THEN "Outro" ELSE "Scene",
                                  scene_start, total))
                     ELSE cuts
    /\ pc' = "done"
    /\ UNCHANGED <<args, inputs, kf, adjustVars, intro_end, all_transitions,
                   reduceVars, scene_start, scene_number>>

Next ==
    \/ DetectIntro
    \/ CollectTransitions
    \/ DeferStep
    \/ EarliestStep
    \/ OutputIntro
    \/ OutputScene
    \/ OutputEnding

Spec == Init /\ [][Next]_vars

SpecSparse == InitSparse /\ [][Next]_vars

\* ------------------------------------------------- the debug listing
\* Runs with --debug: the listing of lines 258-263 snaps every transition.
InitSnap ==
    /\ keyframes \in KeyframeLists(MaxSnapTime)
    /\ black_frames \in TransitionLists(MaxSnapTime, 1)
    /\ merge_scenes = <<>>
    /\ min_scene_duration = 0
    /\ intro_time_limit = 0
    /\ defer_mode = FALSE
    /\ defer_limit = Second * DefaultDeferLimit
    /\ max_duration = 0
    /\ StartOfCore
    /\ pc = "debug"

\* One iteration of the loop of lines 260-262.
DebugList ==
    /\ pc = "debug"
    /\ idx < Len(black_frames)
    /\ kf' = find_nearest_keyframe(keyframes, At(black_frames, idx)[1],
                                   At(black_frames, idx)[2])
    /\ idx' = idx + 1
    /\ UNCHANGED <<args, inputs, adjusted_black_frames, segment,
                   refined_frames, adjusted, attempt, intro_end,
                   all_transitions, reduceVars, outputVars, pc>>

NextSnap == DebugList

SpecSnap == InitSnap /\ [][NextSnap]_vars

\* ------------------------------------------- runs with many transitions
\* Intra-coded streams (every tick a keyframe) with transitions one tick
\* long: each transition snaps to its own start.
UnitTransitions(S) ==
    LET starts == SortedSeq(S)
    IN  [k \in 1 .. Len(starts) |-> <<starts[k], starts[k] + HalfSecond>>]

InitLong ==
    /\ keyframes = SortedSeq(0 .. MaxLongTime + HalfSecond)
    /\ black_frames \in {UnitTransitions(S) : S \in SUBSET (0 .. MaxLongTime)}
    /\ merge_scenes \in MergeLists(1, MaxLongTime, 2)
    /\ min_scene_duration \in Seconds(MaxSceneLimit)
    /\ intro_time_limit \in Seconds(MaxSceneLimit)
    /\ \E d \in DeferChoices(MaxDeferLimit) :
          defer_mode = d[1] /\ defer_limit = d[2]
    /\ max_duration = 0
    /\ StartOfCore
    /\ pc = "intro"

SpecLong == InitLong /\ [][Next]_vars

\* -------------------------------------- adjustment of long black segments
\* Lines 131-141: the reported intervals in absolute time that overlap the
\* segment, clamped to it.
RECURSIVE Overlapping(_, _, _, _)
Overlapping(frames, analysis_start, start_time, end_time_) ==
    IF frames = <<>> THEN <<>>
    ELSE LET abs_start == analysis_start + frames[1][1]
             abs_end == analysis_start + frames[1][2]
             rest == Overlapping(Tail(frames), analysis_start, start_time,
                                 end_time_)
         IN  IF abs_end > start_time /\ abs_start < end_time_
             THEN <<<<Max(abs_start, start_time), Min(abs_end, end_time_)>>>>
                  \o rest
             ELSE rest

\* Line 149: the segments shorter than max_duration.
ShortSegments(refined, limit) ==
    SelectSeq(refined, LAMBDA r : r[2] - r[1] < limit)

\* Runs with auto-adjustment enabled, up to the adjusted black_frames.
InitRefine ==
    /\ keyframes = <<>>
    /\ black_frames \in TransitionLists(MaxRefineTime, 1)
    /\ merge_scenes = <<>>
    /\ min_scene_duration = 0
    /\ intro_time_limit = 0
    /\ defer_mode = FALSE
    /\ defer_limit = Second * DefaultDeferLimit
    /\ max_duration \in HalfSecond .. MaxRefineTime
    /\ StartOfCore
    /\ pc = "adjust"

\* Lines 270-272 and 280-281: a segment no longer than max_duration is kept.
AdjustKeep ==
    /\ pc = "adjust"
    /\ idx < Len(black_frames)
    /\ At(black_frames, idx)[2] - At(black_frames, idx)[1] <= max_duration
    /\ adjusted_black_frames' = Append(adjusted_black_frames,
                                       At(black_frames, idx))
    /\ idx' = idx + 1
    /\ UNCHANGED <<args, inputs, kf, segment, refined_frames, adjusted,
                   attempt, intro_end, all_transitions, reduceVars,
                   outputVars, pc>>

\* Lines 272-275 and 100-107: refine_long_segment is entered.
AdjustLong ==
    /\ pc = "adjust"
    /\ idx < Len(black_frames)
    /\ At(black_frames, idx)[2] - At(black_frames, idx)[1] > max_duration
    /\ segment' = At(black_frames, idx)
    /\ attempt' = 0
    /\ refined_frames' = <<>>
    /\ adjusted' = <<>>
    /\ pc' = "refine"
    /\ UNCHANGED <<args, inputs, kf, idx, adjusted_black_frames, intro_end,
                   all_transitions, reduceVars, outputVars>>

\* Lines 129, 146, 154, 165 and 276-279: refine_long_segment returns result
\* on the report of its last invocation.
Return(result, report) ==
    /\ adjusted' = result
    /\ refined_frames' = report
    /\ adjusted_black_frames' = adjusted_black_frames \o result
    /\ idx' = idx + 1
    /\ pc' = "adjust"

\* Lines 108-161: the loop runs again only while attempts are left.
RefineAttemptUnbounded ==
    /\ pc = "refine"
    /\ LET start_time == segment[1]
           end_time_ == segment[2]
           analysis_start == Max(0, start_time - HalfSecond)
           analysis_duration == (end_time_ - start_time) + Second
       IN  \E report \in TransitionLists(analysis_duration, MaxReport) :
              LET refined == Overlapping(report, analysis_start, start_time,
                                         end_time_)
                  short_segments == ShortSegments(refined, max_duration)
              IN  /\ attempt' = attempt + 1
                  /\ IF report = <<>> THEN Return(<<segment>>, report)
                     ELSE IF refined = <<>> THEN Return(<<segment>>, report)
                     ELSE IF short_segments # <<>>
                     THEN Return(short_segments, report)
                     ELSE IF attempt + 1 > MaxAttempts
                     THEN Return(<<segment>>, report)
                     ELSE UNCHANGED <<adjusted, adjusted_black_frames,
                                      refined_frames, idx, pc>>
    /\ UNCHANGED <<args, inputs, kf, segment, intro_end, all_transitions,
                   reduceVars, outputVars>>

\* One iteration of the loop of lines 108-161: the frame-analysis tool is run
\* on the padded window with a stricter threshold and reports any list of
\* intervals of the window.  A report that leaves only long intervals is
\* not read again once the loop goes on (line 124 replaces it), so it is
\* recorded only when the call returns on it.
RefineAttempt ==
    /\ pc = "refine"
    /\ LET start_time == segment[1]
           end_time_ == segment[2]
           analysis_start == Max(0, start_time - HalfSecond)
           analysis_duration == (end_time_ - start_time) + Second
       IN  \E report \in TransitionLists(analysis_duration, MaxReport) :
              LET refined == Overlapping(report, analysis_start, start_time,
                                         end_time_)
                  short_segments == ShortSegments(refined, max_duration)
              IN  /\ attempt' = attempt + 1
                  /\ IF report = <<>> THEN Return(<<segment>>, report)
                     ELSE IF refined = <<>> THEN Return(<<segment>>, report)
                     ELSE IF short_segments # <<>>
                     THEN Return(short_segments, report)
                     ELSE IF attempt + 1 >= MaxAttempts
                     THEN Return(<<segment>>, report)
                     ELSE UNCHANGED <<adjusted, adjusted_black_frames,
                                      refined_frames, idx, pc>>
    /\ UNCHANGED <<args, inputs, kf, segment, intro_end, all_transitions,
                   reduceVars, outputVars>>

\* Line 282: the adjusted list is sorted by start and replaces black_frames.
AdjustDone ==
    /\ pc = "adjust"
    /\ idx >= Len(black_frames)
    /\ black_frames' = SortByStart(adjusted_black_frames)
    /\ pc' = "intro"
    /\ UNCHANGED <<args, keyframes, kf, adjustVars, intro_end,
                   all_transitions, reduceVars, outputVars>>

NextRefine ==
    \/ AdjustKeep
    \/ AdjustLong
    \/ RefineAttempt
    \/ AdjustDone

SpecRefine == InitRefine /\ [][NextRefine]_vars

\* ------------------------------------------------------------ properties
NonDecreasing(seq) == \A k \in 1 .. Len(seq) - 1 : seq[k] <= seq[k + 1]
StrictlyIncreasing(seq) == \A k \in 1 .. Len(seq) - 1 : seq[k] < seq[k + 1]

\* No transition interval ends before an earlier-starting one does: the
\* ends are in order as well as the starts (true of disjoint intervals).
NonNested(frames) ==
    \A k \in 1 .. Len(frames) - 1 : frames[k][2] <= frames[k + 1][2]

\* The k-th split point is at least the minimum scene duration after the
\* split point before it, or after the intro end when it is the first.
GapKept(k) ==
    split_points[k] - (IF k = 1 THEN intro_end ELSE split_points[k - 1])
        >= min_scene_duration

C2_StrictlyIncreasing == StrictlyIncreasing(split_points)

SnapOrEnd(frame) ==
    LET scene_end == find_nearest_keyframe(keyframes, frame[1], frame[2])
    IN  IF scene_end = None THEN frame[2] ELSE scene_end

\* The transitions before the first one that starts at or after the limit.
IntroPrefix ==
    {k \in 1 .. Len(black_frames) :
        \A m \in 1 .. k : black_frames[m][1] < intro_time_limit}

\* C7: the intro end is the largest snapped cut point of the transitions
\* scanned before the limit is crossed, the end standing in only when
\* snapping returns none, and 0 when there is none.
C7_IntroEnd ==
    pc # "intro" =>
        /\ \A k \in IntroPrefix : intro_end >= SnapOrEnd(black_frames[k])
        /\ \/ intro_end = 0
           \/ \E k \in IntroPrefix : intro_end = SnapOrEnd(black_frames[k])

\* C8: the cut ranges run tile [0, end_time]: each is of positive length,
\* the first starts at 0, each starts where the one before ends, the last
\* ends at end_time; with scene 0 merged there is no intro file.
C8_Partition ==
    pc = "done" =>
        /\ \A k \in 1 .. Len(cuts) : cuts[k].from < cuts[k].to
        /\ \A k \in 1 .. Len(cuts) - 1 : cuts[k + 1].from = cuts[k].to
        /\ IF cuts = <<>> THEN end_time = 0
           ELSE cuts[1].from = 0 /\ cuts[Len(cuts)].to = end_time
        /\ should_merge(0, merge_scenes) =>
              \A k \in 1 .. Len(cuts) : cuts[k].file # "Intro"

\* C9 as stated: the candidates are in increasing order for every list of
\* transitions sorted by start.
C9_CandidatesSorted ==
    pc \notin {"intro", "collect"} => NonDecreasing(all_transitions)

\* C9 amended: the candidates are in non-decreasing order when no
\* transition interval is nested in an earlier one.
C9_CandidatesSortedNonNested ==
    (pc \notin {"intro", "collect"} /\ NonNested(black_frames)) =>
        NonDecreasing(all_transitions)

\* Two different non-nested transitions gave two candidates.
C9_Witness ==
    /\ pc = "reduce"
    /\ NonNested(black_frames)
    /\ Len(all_transitions) >= 2
    /\ all_transitions[1] < all_transitions[2]

\* The keyframes as a set, and the transition the debug listing snapped
\* last.
KeyframeSet == {keyframes[k] : k \in 1 .. Len(keyframes)}
Snapped == black_frames[idx]
Mid2 == Snapped[1] + Snapped[2]
BeforeSet == {k \in KeyframeSet : 2 * k <= Mid2}
AfterSet == {k \in KeyframeSet : 2 * k >= Mid2}
Before == CHOOSE b \in BeforeSet : \A k \in BeforeSet : k <= b
After == CHOOSE a \in AfterSet : \A k \in AfterSet : a <= k
InsideSnapped(k) == Snapped[1] <= k /\ k <= Snapped[2]
\* The candidate closer to the midpoint, the earlier one when equally far.
Closer == IF Mid2 - 2 * Before <= 2 * After - Mid2 THEN Before ELSE After

\* C6: find_nearest_keyframe follows the decision procedure: none exactly
\* when there is no keyframe and otherwise a keyframe; the only candidate
\* when one side is empty; with both candidates inside the transition the
\* closer to the midpoint, the earlier on a tie; the one inside when only
\* one is; with neither inside the earlier one when the two distances to
\* the midpoint differ by at most half a second, otherwise the closer.
C6_SnapProcedure ==
    (pc = "debug" /\ idx > 0) =>
        /\ kf = None <=> KeyframeSet = {}
        /\ kf # None => kf \in KeyframeSet
        /\ (BeforeSet = {} /\ AfterSet # {}) => kf = After
        /\ (BeforeSet # {} /\ AfterSet = {}) => kf = Before
        /\ (BeforeSet # {} /\ AfterSet # {}) =>
              IF InsideSnapped(Before) /\ InsideSnapped(After) THEN kf = Closer
              ELSE IF InsideSnapped(Before) THEN kf = Before
              ELSE IF InsideSnapped(After) THEN kf = After
              ELSE IF Abs((Mid2 - 2 * Before) - (2 * After - Mid2))
                        <= 2 * HalfSecond
              THEN kf = Before
              ELSE kf = Closer
        /\ KeyframeSet = {Snapped[1], Snapped[2]} => kf = Snapped[1]

\* The keyframes are exactly the two ends of the transition and the
\* earlier end was chosen.
C6_Witness ==
    /\ pc = "debug"
    /\ idx > 0
    /\ keyframes = <<Snapped[1], Snapped[2]>>
    /\ kf = Snapped[1]

\* The scene indices in some merge range [start, end).
Suppressed(k) ==
    \E m \in 1 .. Len(merge_scenes) :
        merge_scenes[m][1] <= k /\ k < merge_scenes[m][2]

\* What one step of the reduction does with the candidate at position i.
ReductionStep ==
    (pc = "reduce" /\ pc' = "reduce") =>
        IF At(all_transitions, i) - current_start >= min_scene_duration
        THEN /\ premerge_scene_number' = premerge_scene_number + 1
             /\ current_start' = At(all_transitions, i' - 1)
             /\ split_points' =
                    IF Suppressed(premerge_scene_number) THEN split_points
                    ELSE Append(split_points, current_start')
        ELSE UNCHANGED <<premerge_scene_number, current_start, split_points>>

\* C5: the pre-merge scene counter starts at 1 and grows by one at every
\* decision point; the k-th decision point is emitted exactly when k is in
\* no merge range, and the cursor moves to it either way; so the number of
\* split points is the number of unsuppressed indices below the counter.
C5_MergeSuppression ==
    /\ premerge_scene_number = 1
    /\ [][ReductionStep]_vars
    /\ [](Len(split_points) =
            Cardinality({k \in 1 .. premerge_scene_number - 1 :
                            ~Suppressed(k)}))

\* With --merge 3-5 five decision points were made: the 3rd and 4th were
\* suppressed and the 5th was emitted as the third split point.
C5_Witness ==
    /\ merge_scenes = << <<3, 5>> >>
    /\ premerge_scene_number = 6
    /\ Len(split_points) = 3
    /\ split_points[3] = current_start

\* refine_long_segment has returned.
Returned == pc # "refine" /\ segment # <<>>

\* The reported intervals that overlap the segment, in absolute time.
Overlaps(r) ==
    LET analysis_start == Max(0, segment[1] - HalfSecond)
    IN  /\ analysis_start + r[2] > segment[1]
        /\ analysis_start + r[1] < segment[2]

ShortInside(iv) ==
    /\ segment[1] <= iv[1]
    /\ iv[1] < iv[2]
    /\ iv[2] <= segment[2]
    /\ iv[2] - iv[1] < max_duration

\* C10: refine_long_segment runs the frame-analysis tool at most twice and
\* returns either the original interval alone or a non-empty list of
\* intervals inside it, each shorter than max_duration; it returns the
\* original when the last report is empty or overlaps nothing, and when the
\* second attempt too leaves only long intervals.
C10_Refine ==
    /\ attempt <= MaxAttempts
    /\ Returned =>
          /\ attempt >= 1
          /\ \/ adjusted = <<segment>>
             \/ /\ adjusted # <<>>
                /\ \A k \in 1 .. Len(adjusted) : ShortInside(adjusted[k])
          /\ (\A k \in 1 .. Len(refined_frames) : ~Overlaps(refined_frames[k]))
                => adjusted = <<segment>>
          /\ adjusted = <<segment>> =>
                \/ \A k \in 1 .. Len(refined_frames) :
                      ~Overlaps(refined_frames[k])
                \/ attempt = MaxAttempts

\* The second attempt returned short intervals and dropped a long one.
C10_Witness ==
    /\ Returned
    /\ attempt = MaxAttempts
    /\ adjusted # <<segment>>
    /\ Len(adjusted) >= 1
    /\ Len(adjusted) <
          Cardinality({k \in 1 .. Len(refined_frames) :
                          Overlaps(refined_frames[k])})

====
